---------------------------- MODULE Spec2Model ----------------------------
(***************************************************************************)
(* cam-server: the capture loop (StreamWorker), the encoder/broadcaster     *)
(* (encodeToImage), the consumers of the broadcast channel li (HTTP stream  *)
(* and snapshot handlers, TimelapseWorker), the HTTP server worker and the  *)
(* lifecycle coordinator (main).                                            *)
(*                                                                          *)
(* Every goroutine is a process with a program counter.  An unbuffered Go   *)
(* channel is a rendezvous: li is modelled by its queue of parked           *)
(* receivers (the runtime serves it first-in first-out) and by the encoder  *)
(* being parked in its blocking send; fi and back are rendezvous between    *)
(* the capture loop and the encoder.  errCh is a buffered channel, modelled *)
(* by the number of reports sent by each goroutine and the number main has  *)
(* taken.  Process exit (os.Exit, log.Fatal, a panic) stops every           *)
(* goroutine.                                                               *)
(*                                                                          *)
(* Next is the whole program.  Its state space is too large to enumerate,   *)
(* so the properties are checked under three specifications that restrict   *)
(* what the environment does: SpecFan (frames flow, nothing fails in the    *)
(* device, no shutdown), SpecCapture (the device times out and fails, no    *)
(* client connects, no tick) and SpecLife (signals, shutdown, snapshot      *)
(* clients, ticks; with the scheduler's fairness).                          *)
(***************************************************************************)
EXTENDS Integers, Sequences, FiniteSets, TLC

VARIABLES
    mainPc,      \* main: "select1", "cancel", "select2", "exited"
    exitCode,    \* process exit status, -1 while running
    exitBy,      \* what ended the process: "none", "timeout", "done", "signal", "panic"
    ctxDone,     \* ctx.Done() is closed (cancel() was called)
    sigs,        \* signals pending in the buffered channel sigs
    sigsSent,    \* signals delivered to the process so far
    wg,          \* the WaitGroup counter
    wgCh,        \* wgCh is closed
    recvd,       \* reports main has received from errCh
    sent,        \* reports sent on errCh, per sending goroutine
    swPc,        \* StreamWorker: "open", "start", "startNil", "loop", "wait", "read", "ack", "done"
    failures,    \* StreamWorker's consecutive-timeout counter
    doShutdown,  \* StreamWorker's doShutdown flag
    sdPc,        \* StreamWorker's shutdown goroutine: "idle", "wait", "stopped", "done"
    encPc,       \* encodeToImage: "idle", "recvFi", "copy", "decode", "encode", "fan", "post", "blocked", "dead"
    nn,          \* encodeToImage's count of successful non-blocking sends
    frameNo,     \* number of the encoded frame held by encodeToImage (production order)
    buf,         \* the bytes.Buffer of every encoded frame: its length and read offset
    liQ,         \* receivers parked on li, oldest first
    cons,        \* the consumers of li: the timelapse worker and the HTTP handlers
    ticks,       \* ticker ticks consumed by TimelapseWorker
    still,       \* the still file of the tick in progress
    httpPc,      \* ServeHttp: "serving", "done"
    roundQ,      \* history: receivers parked on li when the fan-out round started
    served,      \* history: receivers handed the frame in the current round
    run,         \* history: WaitForFrame timeouts since the last successful wait
    consec,      \* history: WaitForFrame calls in a row that have timed out
    runReports,  \* history: timeout reports sent in the current row of timeouts
    interleaved, \* history: a successful wait has followed one or more timeouts
    truncated,   \* history: an HTTP handler wrote fewer bytes than the frame encoded to
    lastRecv,    \* history: the number of the frame each consumer received last
    TimelapseIntervalMins, \* the package variable: minutes between two stills
    encodeDur,   \* TimelapseWorker: duration of the last successful ffmpeg run
    diag,        \* the ERROR / WARN / INFO lines logged about encode durations, in order
    doneCalls,   \* history: how many times each worker has called wg.Done()
    heldAtStart, \* history: the frame the encoder held in its blocking send when the
                 \* consumer began its first receive (0: none)
    faultBudget, \* environment: how many failures the device produces in this run
    fatal        \* history: goroutines that have met a fatal condition

vars == << mainPc, exitCode, exitBy, ctxDone, sigs, sigsSent, wg, wgCh, recvd, sent,
           swPc, failures, doShutdown, sdPc, encPc, nn, frameNo, buf, liQ, cons,
           ticks, still, httpPc, roundQ, served, run, consec, runReports, interleaved,
           truncated, lastRecv, heldAtStart, doneCalls, TimelapseIntervalMins,
           encodeDur, diag, faultBudget, fatal >>

-----------------------------------------------------------------------------
(* Program constants *)

WebcamFrameMaxTimeouts == 10
N == 50
SigsCap == 2
Workers == 3
ErrChCap == 1000
DoneStatus == 0
FatalStatus == 1
PanicStatus == 2
\* var TimelapseIntervalMins = 5
DefaultIntervalMins == 5
\* time.Minute, with durations counted in seconds
Minute == 60
DefaultBufSize == 4096
MinRead == 512

(* Bounds of the model *)

MaxClients == 1
MaxFrames == 2
MaxTicks == 1
MaxSignals == 2
MaxTimeoutRun == 12
MaxStreamReports == 2
\* APP_TIMELAPSE_INT_MINS is taken from 1..MaxIntervalMins
MaxIntervalMins == 2

TL == 0
Clients == 1..MaxClients
ConsumerIds == {TL} \cup Clients
Senders == {"stream", "enc", "tl", "http"}
\* The goroutines main starts and counts in the WaitGroup.
WorkerIds == {"stream", "tl", "http"}

\* Encoded lengths jpeg.Encode can produce: one that fits bufio's buffer, one that does not.
FrameLens == {DefaultBufSize, DefaultBufSize + 1}

Min(a, b) == IF a < b THEN a ELSE b

Running == mainPc # "exited"

\* Reports waiting in errCh.
ErrPending == sent["stream"] + sent["enc"] + sent["tl"] + sent["http"] - recvd

\* errCh <- err by goroutine w: the send waits while the channel is full.
Report(w) ==
    /\ ErrPending < ErrChCap
    /\ sent' = [sent EXCEPT ![w] = @ + 1]

\* Goroutine w meets a fatal condition and sends it on errCh.
ReportFatal(w) ==
    /\ Report(w)
    /\ fatal' = fatal \cup {w}

-----------------------------------------------------------------------------
\* The state when main has started the three workers; the device fails at most
\* budget times.
\* wg.Done()
DoneSkipped(n) == n
Done(n) == n - 1

\* defer wg.Done() of worker w runs when its function ends.
WgDone(w) ==
    /\ wg' = Done(wg)
    /\ doneCalls' = [doneCalls EXCEPT ![w] = @ + 1]

Start(budget) ==
    /\ mainPc = "select1"
    /\ exitCode = -1
    /\ exitBy = "none"
    /\ ctxDone = FALSE
    /\ sigs = 0
    /\ sigsSent = 0
    /\ wg = Workers
    /\ wgCh = FALSE
    /\ recvd = 0
    /\ sent = [w \in Senders |-> 0]
    /\ swPc = "open"
    /\ failures = 0
    /\ doShutdown = FALSE
    /\ sdPc = "idle"
    /\ encPc = "idle"
    /\ nn = 0
    /\ frameNo = 0
    /\ buf = [f \in 1..MaxFrames |-> [len |-> 0, off |-> 0]]
    /\ liQ = << >>
    /\ cons = [c \in ConsumerIds |->
                 IF c = TL THEN [pc |-> "init", kind |-> "tl", img |-> 0]
                           ELSE [pc |-> "idle", kind |-> "none", img |-> 0]]
    /\ ticks = 0
    /\ still = [want |-> 0, file |-> 0, buffered |-> 0]
    /\ httpPc = "serving"
    /\ roundQ = << >>
    /\ served = {}
    /\ run = 0
    /\ consec = 0
    /\ runReports = 0
    /\ interleaved = FALSE
    /\ truncated = FALSE
    /\ fatal = {}
    /\ lastRecv = [c \in ConsumerIds |-> 0]
    /\ heldAtStart = [c \in ConsumerIds |-> 0]
    /\ doneCalls = [w \in WorkerIds |-> 0]
    /\ encodeDur = 0
    /\ diag = << >>
    /\ faultBudget = budget

Init == Start(MaxStreamReports) /\ TimelapseIntervalMins = DefaultIntervalMins

-----------------------------------------------------------------------------
(* main, src/timelapse.go *)

\* signal.Notify(sigs, ...): a signal is queued when the channel has room, dropped otherwise.
ExternalSignal ==
    /\ Running
    /\ sigsSent < MaxSignals
    /\ sigsSent' = sigsSent + 1
    /\ sigs' = Min(sigs + 1, SigsCap)
    /\ UNCHANGED << mainPc, exitCode, exitBy, ctxDone, wg, wgCh, recvd, sent, swPc,
                    failures, doShutdown, sdPc, encPc, nn, frameNo, buf, liQ, cons,
                    ticks, still, httpPc, roundQ, served, run, consec, runReports,
                    interleaved, truncated, lastRecv, heldAtStart, doneCalls,
                    TimelapseIntervalMins, encodeDur, diag, faultBudget, fatal >>

\* First select, case e := <-errCh.
MainRecvErr ==
    /\ mainPc = "select1"
    /\ ErrPending > 0
    /\ recvd' = recvd + 1
    /\ mainPc' = "cancel"
    /\ UNCHANGED << exitCode, exitBy, ctxDone, sigs, sigsSent, wg, wgCh, sent, swPc,
                    failures, doShutdown, sdPc, encPc, nn, frameNo, buf, liQ, cons,
                    ticks, still, httpPc, roundQ, served, run, consec, runReports,
                    interleaved, truncated, lastRecv, heldAtStart, doneCalls,
                    TimelapseIntervalMins, encodeDur, diag, faultBudget, fatal >>

\* First select, case <-sigs.
MainRecvSig ==
    /\ mainPc = "select1"
    /\ sigs > 0
    /\ sigs' = sigs - 1
    /\ mainPc' = "cancel"
    /\ UNCHANGED << exitCode, exitBy, ctxDone, sigsSent, wg, wgCh, recvd, sent, swPc,
                    failures, doShutdown, sdPc, encPc, nn, frameNo, buf, liQ, cons,
                    ticks, still, httpPc, roundQ, served, run, consec, runReports,
                    interleaved, truncated, lastRecv, heldAtStart, doneCalls,
                    TimelapseIntervalMins, encodeDur, diag, faultBudget, fatal >>

\* cancel(), time.After(...), go func() { wg.Wait(); close(wgCh) }(), then the second select.
MainCancel ==
    /\ mainPc = "cancel"
    /\ ctxDone' = TRUE
    /\ mainPc' = "select2"
    /\ UNCHANGED << exitCode, exitBy, sigs, sigsSent, wg, wgCh, recvd, sent, swPc,
                    failures, doShutdown, sdPc, encPc, nn, frameNo, buf, liQ, cons,
                    ticks, still, httpPc, roundQ, served, run, consec, runReports,
                    interleaved, truncated, lastRecv, heldAtStart, doneCalls,
                    TimelapseIntervalMins, encodeDur, diag, faultBudget, fatal >>

\* wg.Wait() returns when the counter is zero.
WgWaitReturnsAtOnce == TRUE
WgWaitReturns == wg = 0

\* The goroutine started by main: wg.Wait(); close(wgCh).
WaitGroupWaiter ==
    /\ mainPc = "select2"
    /\ ~wgCh
    /\ WgWaitReturns
    /\ wgCh' = TRUE
    /\ UNCHANGED << mainPc, exitCode, exitBy, ctxDone, sigs, sigsSent, wg, recvd, sent,
                    swPc, failures, doShutdown, sdPc, encPc, nn, frameNo, buf, liQ, cons,
                    ticks, still, httpPc, roundQ, served, run, consec, runReports,
                    interleaved, truncated, lastRecv, heldAtStart, doneCalls,
                    TimelapseIntervalMins, encodeDur, diag, faultBudget, fatal >>

Exit(code, by) ==
    /\ mainPc' = "exited"
    /\ exitCode' = code
    /\ exitBy' = by

\* Second select, case <-timeout: log.Fatalf, exit status 1.
MainTimeout ==
    /\ mainPc = "select2"
    /\ Exit(FatalStatus, "timeout")
    /\ UNCHANGED << ctxDone, sigs, sigsSent, wg, wgCh, recvd, sent, swPc, failures,
                    doShutdown, sdPc, encPc, nn, frameNo, buf, liQ, cons, ticks, still,
                    httpPc, roundQ, served, run, consec, runReports, interleaved,
                    truncated, lastRecv, heldAtStart, doneCalls, TimelapseIntervalMins,
                    encodeDur, diag, faultBudget, fatal >>

\* os.Exit(0)
AllDoneStatusFatal == FatalStatus
AllDoneStatus == DoneStatus

\* Second select, case <-wgCh: os.Exit(0).
MainAllDone ==
    /\ mainPc = "select2"
    /\ wgCh
    /\ Exit(AllDoneStatus, "done")
    /\ UNCHANGED << ctxDone, sigs, sigsSent, wg, wgCh, recvd, sent, swPc, failures,
                    doShutdown, sdPc, encPc, nn, frameNo, buf, liQ, cons, ticks, still,
                    httpPc, roundQ, served, run, consec, runReports, interleaved,
                    truncated, lastRecv, heldAtStart, doneCalls, TimelapseIntervalMins,
                    encodeDur, diag, faultBudget, fatal >>

\* Second select, case <-sigs: log.Fatal, exit status 1.
MainSecondSig ==
    /\ mainPc = "select2"
    /\ sigs > 0
    /\ sigs' = sigs - 1
    /\ Exit(FatalStatus, "signal")
    /\ UNCHANGED << ctxDone, sigsSent, wg, wgCh, recvd, sent, swPc, failures, doShutdown,
                    sdPc, encPc, nn, frameNo, buf, liQ, cons, ticks, still, httpPc,
                    roundQ, served, run, consec, runReports, interleaved, truncated,
                    lastRecv, heldAtStart, doneCalls, TimelapseIntervalMins, encodeDur,
                    diag, faultBudget, fatal >>

-----------------------------------------------------------------------------
(* StreamWorker, src/camera.go *)

\* webcam.Open succeeds.
SwOpenOk ==
    /\ Running /\ swPc = "open"
    /\ swPc' = "start"
    /\ UNCHANGED << mainPc, exitCode, exitBy, ctxDone, sigs, sigsSent, wg, wgCh, recvd,
                    sent, failures, doShutdown, sdPc, encPc, nn, frameNo, buf, liQ, cons,
                    ticks, still, httpPc, roundQ, served, run, consec, runReports,
                    interleaved, truncated, lastRecv, heldAtStart, doneCalls,
                    TimelapseIntervalMins, encodeDur, diag, faultBudget, fatal >>

\* webcam.Open fails: the error is reported and the function goes on with a nil cam.
SwOpenFail ==
    /\ Running /\ swPc = "open"
    /\ sent["stream"] < faultBudget
    /\ ReportFatal("stream")
    /\ swPc' = "startNil"
    /\ UNCHANGED << mainPc, exitCode, exitBy, ctxDone, sigs, sigsSent, wg, wgCh, recvd,
                    failures, doShutdown, sdPc, encPc, nn, frameNo, buf, liQ, cons,
                    ticks, still, httpPc, roundQ, served, run, consec, runReports,
                    interleaved, truncated, lastRecv, heldAtStart, doneCalls,
                    TimelapseIntervalMins, encodeDur, diag, faultBudget >>

\* cam.StartStreaming() on the nil *Webcam dereferences it: the goroutine panics, its
\* deferred calls run (wg.Done() among them) and the Go runtime ends the process with
\* status 2.
SwStartNil ==
    /\ Running /\ swPc = "startNil"
    /\ WgDone("stream")
    /\ Exit(PanicStatus, "panic")
    /\ UNCHANGED << ctxDone, sigs, sigsSent, wgCh, recvd, sent, swPc, failures,
                    doShutdown, sdPc, encPc, nn, frameNo, buf, liQ, cons, ticks, still,
                    httpPc, roundQ, served, run, consec, runReports, interleaved,
                    truncated, lastRecv, heldAtStart, TimelapseIntervalMins, encodeDur,
                    diag, faultBudget, fatal >>

\* The shutdown goroutine and encodeToImage are started and the loop is entered.
EnterLoop ==
    /\ swPc' = "loop"
    /\ sdPc' = "wait"
    /\ encPc' = "recvFi"

\* cam.StartStreaming() succeeds.
SwStartOk ==
    /\ Running /\ swPc = "start"
    /\ EnterLoop
    /\ UNCHANGED << mainPc, exitCode, exitBy, ctxDone, sigs, sigsSent, wg, wgCh, recvd,
                    sent, failures, doShutdown, nn, frameNo, buf, liQ, cons, ticks,
                    still, httpPc, roundQ, served, run, consec, runReports, interleaved,
                    truncated, lastRecv, heldAtStart, doneCalls, TimelapseIntervalMins,
                    encodeDur, diag, faultBudget, fatal >>

\* cam.StartStreaming() fails: the error is reported and the function goes on.
SwStartFail ==
    /\ Running /\ swPc = "start"
    /\ sent["stream"] < faultBudget
    /\ ReportFatal("stream")
    /\ EnterLoop
    /\ UNCHANGED << mainPc, exitCode, exitBy, ctxDone, sigs, sigsSent, wg, wgCh, recvd,
                    failures, doShutdown, nn, frameNo, buf, liQ, cons, ticks, still,
                    httpPc, roundQ, served, run, consec, runReports, interleaved,
                    truncated, lastRecv, heldAtStart, doneCalls, TimelapseIntervalMins,
                    encodeDur, diag, faultBudget >>

\* The shutdown goroutine: <-ctx.Done(), cam.StopStreaming().
SdStop ==
    /\ Running /\ sdPc = "wait" /\ ctxDone
    /\ sdPc' = "stopped"
    /\ UNCHANGED << mainPc, exitCode, exitBy, ctxDone, sigs, sigsSent, wg, wgCh, recvd,
                    sent, swPc, failures, doShutdown, encPc, nn, frameNo, buf, liQ, cons,
                    ticks, still, httpPc, roundQ, served, run, consec, runReports,
                    interleaved, truncated, lastRecv, heldAtStart, doneCalls,
                    TimelapseIntervalMins, encodeDur, diag, faultBudget, fatal >>

\* The shutdown goroutine: doShutdown = true.
SdFlag ==
    /\ Running /\ sdPc = "stopped"
    /\ doShutdown' = TRUE
    /\ sdPc' = "done"
    /\ UNCHANGED << mainPc, exitCode, exitBy, ctxDone, sigs, sigsSent, wg, wgCh, recvd,
                    sent, swPc, failures, encPc, nn, frameNo, buf, liQ, cons, ticks,
                    still, httpPc, roundQ, served, run, consec, runReports, interleaved,
                    truncated, lastRecv, heldAtStart, doneCalls, TimelapseIntervalMins,
                    encodeDur, diag, faultBudget, fatal >>

\* for !doShutdown: the loop goes on into cam.WaitForFrame.  The read of doShutdown is
\* not synchronised with the shutdown goroutine's write, so it may still yield false
\* after the write.
SwLoop ==
    /\ Running /\ swPc = "loop"
    /\ swPc' = "wait"
    /\ UNCHANGED << mainPc, exitCode, exitBy, ctxDone, sigs, sigsSent, wg, wgCh, recvd,
                    sent, failures, doShutdown, sdPc, encPc, nn, frameNo, buf, liQ, cons,
                    ticks, still, httpPc, roundQ, served, run, consec, runReports,
                    interleaved, truncated, lastRecv, heldAtStart, doneCalls,
                    TimelapseIntervalMins, encodeDur, diag, faultBudget, fatal >>

\* for !doShutdown: the loop ends; deferred cam.Close() and wg.Done().
SwExit ==
    /\ Running /\ swPc = "loop" /\ doShutdown
    /\ swPc' = "done"
    /\ WgDone("stream")
    /\ UNCHANGED << mainPc, exitCode, exitBy, ctxDone, sigs, sigsSent, wgCh, recvd, sent,
                    failures, doShutdown, sdPc, encPc, nn, frameNo, buf, liQ, cons,
                    ticks, still, httpPc, roundQ, served, run, consec, runReports,
                    interleaved, truncated, lastRecv, heldAtStart, TimelapseIntervalMins,
                    encodeDur, diag, faultBudget, fatal >>

\* case nil: failures = 0
ResetFailuresKeep(f) == f
ResetFailures(f) == 0

\* Frames the encoder has numbered or is about to number.
FramesTaken == frameNo + (IF encPc = "decode" THEN 1 ELSE 0)

\* WaitForFrame returns nil; cam.ReadFrame() is called.
SwWaitOk ==
    /\ Running /\ swPc = "wait"
    /\ FramesTaken < MaxFrames
    /\ failures' = ResetFailures(failures)
    /\ run' = 0
    /\ consec' = 0
    /\ runReports' = 0
    /\ interleaved' = (interleaved \/ run > 0)
    /\ swPc' = "read"
    /\ UNCHANGED << mainPc, exitCode, exitBy, ctxDone, sigs, sigsSent, wg, wgCh, recvd,
                    sent, doShutdown, sdPc, encPc, nn, frameNo, buf, liQ, cons, ticks,
                    still, httpPc, roundQ, served, truncated, lastRecv, heldAtStart,
                    doneCalls, TimelapseIntervalMins, encodeDur, diag, faultBudget,
                    fatal >>

\* if failures == WebcamFrameMaxTimeouts
TimeoutIsFatal(f) == f = WebcamFrameMaxTimeouts

\* WaitForFrame returns *webcam.Timeout: report when the counter is at the maximum,
\* count the timeout, continue.
SwWaitTimeout ==
    /\ Running /\ swPc = "wait"
    /\ failures < MaxTimeoutRun
    /\ IF TimeoutIsFatal(failures)
          THEN /\ sent["stream"] < faultBudget
               /\ ReportFatal("stream")
               /\ runReports' = runReports + 1
          ELSE UNCHANGED << sent, fatal, runReports >>
    /\ failures' = failures + 1
    /\ run' = run + 1
    /\ consec' = consec + 1
    /\ swPc' = "loop"
    /\ UNCHANGED << mainPc, exitCode, exitBy, ctxDone, sigs, sigsSent, wg, wgCh, recvd,
                    doShutdown, sdPc, encPc, nn, frameNo, buf, liQ, cons, ticks, still,
                    httpPc, roundQ, served, interleaved, truncated, lastRecv,
                    heldAtStart, doneCalls, TimelapseIntervalMins, encodeDur, diag,
                    faultBudget >>

\* WaitForFrame returns another error: it is reported, and cam.ReadFrame() is called.
SwWaitError ==
    /\ Running /\ swPc = "wait"
    /\ sent["stream"] < faultBudget
    /\ ReportFatal("stream")
    /\ consec' = 0
    /\ runReports' = 0
    /\ swPc' = "read"
    /\ UNCHANGED << mainPc, exitCode, exitBy, ctxDone, sigs, sigsSent, wg, wgCh, recvd,
                    failures, doShutdown, sdPc, encPc, nn, frameNo, buf, liQ, cons,
                    ticks, still, httpPc, roundQ, served, run, interleaved, truncated,
                    lastRecv, heldAtStart, doneCalls, TimelapseIntervalMins, encodeDur,
                    diag, faultBudget >>

\* case fi <- frame: <-back
AfterHandoffNoWait == "loop"
AfterHandoff == "ack"

\* ReadFrame returns a frame and the encoder is receiving on fi: the frame is handed
\* over and the loop waits on back.
SwReadHandoff ==
    /\ Running /\ swPc = "read"
    /\ encPc = "recvFi"
    /\ encPc' = "copy"
    /\ swPc' = AfterHandoff
    /\ UNCHANGED << mainPc, exitCode, exitBy, ctxDone, sigs, sigsSent, wg, wgCh, recvd,
                    sent, failures, doShutdown, sdPc, nn, frameNo, buf, liQ, cons, ticks,
                    still, httpPc, roundQ, served, run, consec, runReports, interleaved,
                    truncated, lastRecv, heldAtStart, doneCalls, TimelapseIntervalMins,
                    encodeDur, diag, faultBudget, fatal >>

\* select { case fi <- frame: <-back; default: }
HandoffBlocking == FALSE
HandoffHasDefault == TRUE

\* ReadFrame returns a frame and the encoder is not receiving on fi (select default),
\* or it returns no frame and no error: next iteration.
SwReadDrop ==
    /\ Running /\ swPc = "read"
    /\ HandoffHasDefault
    /\ swPc' = "loop"
    /\ UNCHANGED << mainPc, exitCode, exitBy, ctxDone, sigs, sigsSent, wg, wgCh, recvd,
                    sent, failures, doShutdown, sdPc, encPc, nn, frameNo, buf, liQ, cons,
                    ticks, still, httpPc, roundQ, served, run, consec, runReports,
                    interleaved, truncated, lastRecv, heldAtStart, doneCalls,
                    TimelapseIntervalMins, encodeDur, diag, faultBudget, fatal >>

\* ReadFrame returns no frame and an error: it is reported; next iteration.
SwReadError ==
    /\ Running /\ swPc = "read"
    /\ sent["stream"] < faultBudget
    /\ ReportFatal("stream")
    /\ swPc' = "loop"
    /\ UNCHANGED << mainPc, exitCode, exitBy, ctxDone, sigs, sigsSent, wg, wgCh, recvd,
                    failures, doShutdown, sdPc, encPc, nn, frameNo, buf, liQ, cons,
                    ticks, still, httpPc, roundQ, served, run, consec, runReports,
                    interleaved, truncated, lastRecv, heldAtStart, doneCalls,
                    TimelapseIntervalMins, encodeDur, diag, faultBudget >>

-----------------------------------------------------------------------------
(* encodeToImage, src/camera.go *)

\* A receiver that was parked on li resumes at the statement after its receive.
GotPcNoDiscard(pc) == "got"
GotPc(pc) == IF pc = "discardWait" THEN "gotStale" ELSE "got"

\* buf, the pointer the encoder sends on li: the buffer of the frame numbered last.
CurrentBufStale == IF frameNo > 1 THEN frameNo - 1 ELSE frameNo
CurrentBuf == frameNo

\* li <- buf completes with the parked receiver c.
HandTo(c) == [cons EXCEPT ![c] = [@ EXCEPT !.pc = GotPc(@), !.img = CurrentBuf]]

\* The frame consumer c received last.
Received(c) == [lastRecv EXCEPT ![c] = CurrentBuf]

\* copy(frame, bframe); back <- struct{}{} meets the capture loop's <-back.
EncCopyAck ==
    /\ Running /\ encPc = "copy" /\ swPc = "ack"
    /\ encPc' = "decode"
    /\ swPc' = "loop"
    /\ UNCHANGED << mainPc, exitCode, exitBy, ctxDone, sigs, sigsSent, wg, wgCh, recvd,
                    sent, failures, doShutdown, sdPc, nn, frameNo, buf, liQ, cons, ticks,
                    still, httpPc, roundQ, served, run, consec, runReports, interleaved,
                    truncated, lastRecv, heldAtStart, doneCalls, TimelapseIntervalMins,
                    encodeDur, diag, faultBudget, fatal >>

\* image.Decode fails: report and return.
EncDecodeFail ==
    /\ Running /\ encPc = "decode"
    /\ ReportFatal("enc")
    /\ encPc' = "dead"
    /\ UNCHANGED << mainPc, exitCode, exitBy, ctxDone, sigs, sigsSent, wg, wgCh, recvd,
                    swPc, failures, doShutdown, sdPc, nn, frameNo, buf, liQ, cons, ticks,
                    still, httpPc, roundQ, served, run, consec, runReports, interleaved,
                    truncated, lastRecv, heldAtStart, doneCalls, TimelapseIntervalMins,
                    encodeDur, diag, faultBudget >>

\* image.Decode succeeds; buf := &bytes.Buffer{} is the next frame's empty buffer.
EncDecodeOk ==
    /\ Running /\ encPc = "decode"
    /\ frameNo' = frameNo + 1
    /\ buf' = [buf EXCEPT ![frameNo + 1] = [len |-> 0, off |-> 0]]
    /\ encPc' = "encode"
    /\ UNCHANGED << mainPc, exitCode, exitBy, ctxDone, sigs, sigsSent, wg, wgCh, recvd,
                    sent, swPc, failures, doShutdown, sdPc, nn, liQ, cons, ticks, still,
                    httpPc, roundQ, served, run, consec, runReports, interleaved,
                    truncated, lastRecv, heldAtStart, doneCalls, TimelapseIntervalMins,
                    encodeDur, diag, faultBudget, fatal >>

\* jpeg.Encode fails: report and return.
EncEncodeFail ==
    /\ Running /\ encPc = "encode"
    /\ ReportFatal("enc")
    /\ encPc' = "dead"
    /\ UNCHANGED << mainPc, exitCode, exitBy, ctxDone, sigs, sigsSent, wg, wgCh, recvd,
                    swPc, failures, doShutdown, sdPc, nn, frameNo, buf, liQ, cons, ticks,
                    still, httpPc, roundQ, served, run, consec, runReports, interleaved,
                    truncated, lastRecv, heldAtStart, doneCalls, TimelapseIntervalMins,
                    encodeDur, diag, faultBudget >>

\* jpeg.Encode writes the whole frame into buf; nn := 0 and the fan-out loop starts.
EncEncodeOk ==
    /\ Running /\ encPc = "encode"
    /\ \E l \in FrameLens : buf' = [buf EXCEPT ![frameNo] = [len |-> l, off |-> 0]]
    /\ nn' = 0
    /\ roundQ' = liQ
    /\ served' = {}
    /\ encPc' = "fan"
    /\ UNCHANGED << mainPc, exitCode, exitBy, ctxDone, sigs, sigsSent, wg, wgCh, recvd,
                    sent, swPc, failures, doShutdown, sdPc, frameNo, liQ, cons, ticks,
                    still, httpPc, run, consec, runReports, interleaved, truncated,
                    lastRecv, heldAtStart, doneCalls, TimelapseIntervalMins, encodeDur,
                    diag, faultBudget, fatal >>

\* for ; nn < N; nn++
FanContinueOnce(n) == n < 1
FanContinue(n) == n < N

\* nn++ after a send that succeeded
CountSendForgotten(n) == n
CountSend(n) == n + 1

\* select { case li <- buf: } with a receiver parked on li: the oldest one gets buf.
EncFanSend ==
    /\ Running /\ encPc = "fan"
    /\ FanContinue(nn)
    /\ liQ # << >>
    /\ cons' = HandTo(Head(liQ))
    /\ lastRecv' = Received(Head(liQ))
    /\ liQ' = Tail(liQ)
    /\ served' = served \cup {Head(liQ)}
    /\ nn' = CountSend(nn)
    /\ UNCHANGED << mainPc, exitCode, exitBy, ctxDone, sigs, sigsSent, wg, wgCh, recvd,
                    sent, swPc, failures, doShutdown, sdPc, encPc, frameNo, buf, ticks,
                    still, httpPc, roundQ, run, consec, runReports, interleaved,
                    truncated, heldAtStart, doneCalls, TimelapseIntervalMins, encodeDur,
                    diag, faultBudget, fatal >>

\* select { default: break FOR } with no receiver parked on li.
EncFanBreak ==
    /\ Running /\ encPc = "fan"
    /\ FanContinue(nn)
    /\ liQ = << >>
    /\ encPc' = "post"
    /\ UNCHANGED << mainPc, exitCode, exitBy, ctxDone, sigs, sigsSent, wg, wgCh, recvd,
                    sent, swPc, failures, doShutdown, sdPc, nn, frameNo, buf, liQ, cons,
                    ticks, still, httpPc, roundQ, served, run, consec, runReports,
                    interleaved, truncated, lastRecv, heldAtStart, doneCalls,
                    TimelapseIntervalMins, encodeDur, diag, faultBudget, fatal >>

\* The loop ends after N sends.
EncFanFull ==
    /\ Running /\ encPc = "fan"
    /\ ~FanContinue(nn)
    /\ encPc' = "post"
    /\ UNCHANGED << mainPc, exitCode, exitBy, ctxDone, sigs, sigsSent, wg, wgCh, recvd,
                    sent, swPc, failures, doShutdown, sdPc, nn, frameNo, buf, liQ, cons,
                    ticks, still, httpPc, roundQ, served, run, consec, runReports,
                    interleaved, truncated, lastRecv, heldAtStart, doneCalls,
                    TimelapseIntervalMins, encodeDur, diag, faultBudget, fatal >>

\* if nn == 0
NeedsBlockingSendNever(n) == FALSE
NeedsBlockingSend(n) == n = 0

\* After the loop: with nn == 0 the blocking li <- buf; it completes at once when a
\* receiver has parked meanwhile, and parks the encoder otherwise.  Then back to <-fi.
EncPost ==
    /\ Running /\ encPc = "post"
    /\ IF NeedsBlockingSend(nn)
          THEN IF liQ # << >>
                  THEN /\ cons' = HandTo(Head(liQ))
                       /\ lastRecv' = Received(Head(liQ))
                       /\ liQ' = Tail(liQ)
                       /\ encPc' = "recvFi"
                  ELSE /\ encPc' = "blocked"
                       /\ UNCHANGED << cons, lastRecv, liQ >>
          ELSE /\ encPc' = "recvFi"
               /\ UNCHANGED << cons, lastRecv, liQ >>
    /\ nn' = 0
    /\ roundQ' = << >>
    /\ served' = {}
    /\ UNCHANGED << mainPc, exitCode, exitBy, ctxDone, sigs, sigsSent, wg, wgCh, recvd,
                    sent, swPc, failures, doShutdown, sdPc, frameNo, buf, ticks, still,
                    httpPc, run, consec, runReports, interleaved, truncated, heldAtStart,
                    doneCalls, TimelapseIntervalMins, encodeDur, diag, faultBudget,
                    fatal >>

-----------------------------------------------------------------------------
(* The consumers of li: src/server.go, src/unnamed/part_000 *)

\* <-li by consumer c, whose record becomes r: with the encoder parked in its blocking
\* send the receive completes at once and the encoder goes back to <-fi; otherwise c
\* parks on li.
Recv(c, r, waitPc) ==
    /\ heldAtStart' = IF waitPc = "discardWait"
                         THEN [heldAtStart EXCEPT
                                 ![c] = IF encPc = "blocked" THEN CurrentBuf ELSE 0]
                         ELSE heldAtStart
    /\ IF encPc = "blocked"
          THEN /\ cons' = [cons EXCEPT
                             ![c] = [r EXCEPT !.pc = GotPc(waitPc), !.img = CurrentBuf]]
               /\ lastRecv' = Received(c)
               /\ encPc' = "recvFi"
               /\ UNCHANGED liQ
          ELSE /\ cons' = [cons EXCEPT ![c] = [r EXCEPT !.pc = waitPc, !.img = 0]]
               /\ liQ' = Append(liQ, c)
               /\ UNCHANGED << encPc, lastRecv >>

\* img.Bytes(): the unread part of the buffer.
Bytes(b) == b.len - b.off

\* A request for /stream or /snap reaches its handler, which starts with <-fc.li.
\* (Clients are interchangeable: client c + 1 asks after client c.)
Request(c, k) ==
    /\ Running /\ httpPc = "serving"
    /\ cons[c].pc = "idle"
    /\ c = 1 \/ cons[c - 1].pc # "idle"
    /\ Recv(c, [cons[c] EXCEPT !.kind = k], "discardWait")
    /\ UNCHANGED << mainPc, exitCode, exitBy, ctxDone, sigs, sigsSent, wg, wgCh, recvd,
                    sent, swPc, failures, doShutdown, sdPc, nn, frameNo, buf, ticks,
                    still, httpPc, roundQ, served, run, consec, runReports, interleaved,
                    truncated, doneCalls, TimelapseIntervalMins, encodeDur, diag,
                    faultBudget, fatal >>

\* HandleStream, HandleSnapshot: the stale frame is dropped; img := <-fc.li.
ClientSecondRecv(c) ==
    /\ Running
    /\ cons[c].pc = "gotStale"
    /\ Recv(c, cons[c], "recvWait")
    /\ UNCHANGED << mainPc, exitCode, exitBy, ctxDone, sigs, sigsSent, wg, wgCh, recvd,
                    sent, swPc, failures, doShutdown, sdPc, nn, frameNo, buf, ticks,
                    still, httpPc, roundQ, served, run, consec, runReports, interleaved,
                    truncated, doneCalls, TimelapseIntervalMins, encodeDur, diag,
                    faultBudget, fatal >>

\* HandleStream: image := img.Bytes() is written as one part; the loop receives again.
StreamWrite(c) ==
    /\ Running
    /\ cons[c].pc = "got" /\ cons[c].kind = "stream"
    /\ truncated' = (truncated \/ Bytes(buf[cons[c].img]) < buf[cons[c].img].len)
    /\ Recv(c, cons[c], "recvWait")
    /\ UNCHANGED << mainPc, exitCode, exitBy, ctxDone, sigs, sigsSent, wg, wgCh, recvd,
                    sent, swPc, failures, doShutdown, sdPc, nn, frameNo, buf, ticks,
                    still, httpPc, roundQ, served, run, consec, runReports, interleaved,
                    doneCalls, TimelapseIntervalMins, encodeDur, diag, faultBudget,
                    fatal >>

\* HandleStream: CreatePart or Write fails (the client is gone): return.
StreamWriteFail(c) ==
    /\ Running
    /\ cons[c].pc = "got" /\ cons[c].kind = "stream"
    /\ cons' = [cons EXCEPT ![c] = [@ EXCEPT !.pc = "done", !.img = 0]]
    /\ UNCHANGED << mainPc, exitCode, exitBy, ctxDone, sigs, sigsSent, wg, wgCh, recvd,
                    sent, swPc, failures, doShutdown, sdPc, encPc, nn, frameNo, buf, liQ,
                    ticks, still, httpPc, roundQ, served, run, consec, runReports,
                    interleaved, truncated, lastRecv, heldAtStart, doneCalls,
                    TimelapseIntervalMins, encodeDur, diag, faultBudget, fatal >>

\* HandleSnapshot: w.Write(img.Bytes()); return.
SnapWrite(c) ==
    /\ Running
    /\ cons[c].pc = "got" /\ cons[c].kind = "snap"
    /\ truncated' = (truncated \/ Bytes(buf[cons[c].img]) < buf[cons[c].img].len)
    /\ cons' = [cons EXCEPT ![c] = [@ EXCEPT !.pc = "done", !.img = 0]]
    /\ UNCHANGED << mainPc, exitCode, exitBy, ctxDone, sigs, sigsSent, wg, wgCh, recvd,
                    sent, swPc, failures, doShutdown, sdPc, encPc, nn, frameNo, buf, liQ,
                    ticks, still, httpPc, roundQ, served, run, consec, runReports,
                    interleaved, lastRecv, heldAtStart, doneCalls, TimelapseIntervalMins,
                    encodeDur, diag, faultBudget, fatal >>

-----------------------------------------------------------------------------
(* TimelapseWorker, src/unnamed/part_000 *)

TlSet(pc) == [cons EXCEPT ![TL] = [@ EXCEPT !.pc = pc, !.img = 0]]

\* The function returns: deferred wg.Done().
TlReturn ==
    /\ cons' = TlSet("stopped")
    /\ WgDone("tl")

\* os.Stat / os.Mkdir succeed; the ticker is created.
TlMkdirOk ==
    /\ Running /\ cons[TL].pc = "init"
    /\ cons' = TlSet("select")
    /\ UNCHANGED << mainPc, exitCode, exitBy, ctxDone, sigs, sigsSent, wg, wgCh, recvd,
                    sent, swPc, failures, doShutdown, sdPc, encPc, nn, frameNo, buf, liQ,
                    ticks, still, httpPc, roundQ, served, run, consec, runReports,
                    interleaved, truncated, lastRecv, heldAtStart, doneCalls,
                    TimelapseIntervalMins, encodeDur, diag, faultBudget, fatal >>

\* os.Mkdir fails: report and return.
TlMkdirFail ==
    /\ Running /\ cons[TL].pc = "init"
    /\ ReportFatal("tl")
    /\ TlReturn
    /\ UNCHANGED << mainPc, exitCode, exitBy, ctxDone, sigs, sigsSent, wgCh, recvd, swPc,
                    failures, doShutdown, sdPc, encPc, nn, frameNo, buf, liQ, ticks,
                    still, httpPc, roundQ, served, run, consec, runReports, interleaved,
                    truncated, lastRecv, heldAtStart, TimelapseIntervalMins, encodeDur,
                    diag, faultBudget >>

\* select, case <-ctx.Done(): break FOR; ticker.Stop(); return.
TlCancel ==
    /\ Running /\ cons[TL].pc = "select"
    /\ ctxDone
    /\ TlReturn
    /\ UNCHANGED << mainPc, exitCode, exitBy, ctxDone, sigs, sigsSent, wgCh, recvd, sent,
                    swPc, failures, doShutdown, sdPc, encPc, nn, frameNo, buf, liQ,
                    ticks, still, httpPc, roundQ, served, run, consec, runReports,
                    interleaved, truncated, lastRecv, heldAtStart, TimelapseIntervalMins,
                    encodeDur, diag, faultBudget, fatal >>

\* select, case <-ticker.C: the first <-li (remove stale image).
TlTick ==
    /\ Running /\ cons[TL].pc = "select"
    /\ ticks < MaxTicks
    /\ ticks' = ticks + 1
    /\ Recv(TL, cons[TL], "discardWait")
    /\ UNCHANGED << mainPc, exitCode, exitBy, ctxDone, sigs, sigsSent, wg, wgCh, recvd,
                    sent, swPc, failures, doShutdown, sdPc, nn, frameNo, buf, still,
                    httpPc, roundQ, served, run, consec, runReports, interleaved,
                    truncated, doneCalls, TimelapseIntervalMins, encodeDur, diag,
                    faultBudget, fatal >>

\* img := <-li
TlSecondRecv ==
    /\ Running /\ cons[TL].pc = "gotStale"
    /\ Recv(TL, cons[TL], "recvWait")
    /\ UNCHANGED << mainPc, exitCode, exitBy, ctxDone, sigs, sigsSent, wg, wgCh, recvd,
                    sent, swPc, failures, doShutdown, sdPc, nn, frameNo, buf, ticks,
                    still, httpPc, roundQ, served, run, consec, runReports, interleaved,
                    truncated, doneCalls, TimelapseIntervalMins, encodeDur, diag,
                    faultBudget, fatal >>

\* os.Create fails: report, break FOR, return.
TlCreateFail ==
    /\ Running /\ cons[TL].pc = "got"
    /\ ReportFatal("tl")
    /\ TlReturn
    /\ UNCHANGED << mainPc, exitCode, exitBy, ctxDone, sigs, sigsSent, wgCh, recvd, swPc,
                    failures, doShutdown, sdPc, encPc, nn, frameNo, buf, liQ, ticks,
                    still, httpPc, roundQ, served, run, consec, runReports, interleaved,
                    truncated, lastRecv, heldAtStart, TimelapseIntervalMins, encodeDur,
                    diag, faultBudget >>

\* os.Create makes the empty still file; ioutil.ReadAll(img) issues its first Read,
\* which takes up to MinRead bytes out of the shared buffer.
TlCreateRead ==
    /\ Running /\ cons[TL].pc = "got"
    /\ LET f == cons[TL].img
           n == Min(MinRead, Bytes(buf[f]))
       IN /\ buf' = [buf EXCEPT ![f].off = @ + n]
          /\ still' = [want |-> n, file |-> 0, buffered |-> 0]
    /\ cons' = [cons EXCEPT ![TL].pc = "reading"]
    /\ UNCHANGED << mainPc, exitCode, exitBy, ctxDone, sigs, sigsSent, wg, wgCh, recvd,
                    sent, swPc, failures, doShutdown, sdPc, encPc, nn, frameNo, liQ,
                    ticks, httpPc, roundQ, served, run, consec, runReports, interleaved,
                    truncated, lastRecv, heldAtStart, doneCalls, TimelapseIntervalMins,
                    encodeDur, diag, faultBudget, fatal >>

\* bufio.Writer.Write(p) on a fresh writer: a p larger than the buffer goes straight to
\* the file, any other p is only copied into the buffer.
BufioWrite(n) ==
    IF n > DefaultBufSize THEN [file |-> n, buffered |-> 0]
                          ELSE [file |-> 0, buffered |-> n]

\* ioutil.ReadAll reads the rest of the buffer; w.Write(b) succeeds; the snapshot is
\* logged and the ffmpeg command over *.jpg is started (the writer is neither flushed
\* nor the file closed).
TlReadWrite ==
    /\ Running /\ cons[TL].pc = "reading"
    /\ LET f == cons[TL].img
           b == still.want + Bytes(buf[f])
       IN /\ buf' = [buf EXCEPT ![f].off = buf[f].len]
          /\ still' = [want |-> b, file |-> BufioWrite(b).file,
                       buffered |-> BufioWrite(b).buffered]
    /\ cons' = [cons EXCEPT ![TL].pc = "ffmpeg"]
    /\ UNCHANGED << mainPc, exitCode, exitBy, ctxDone, sigs, sigsSent, wg, wgCh, recvd,
                    sent, swPc, failures, doShutdown, sdPc, encPc, nn, frameNo, liQ,
                    ticks, httpPc, roundQ, served, run, consec, runReports, interleaved,
                    truncated, lastRecv, heldAtStart, doneCalls, TimelapseIntervalMins,
                    encodeDur, diag, faultBudget, fatal >>

\* ioutil.ReadAll reads the rest of the buffer; w.Write(b) goes to the file and the
\* file write fails: report, break FOR, return.
TlReadWriteFail ==
    /\ Running /\ cons[TL].pc = "reading"
    /\ LET f == cons[TL].img
       IN /\ still.want + Bytes(buf[f]) > DefaultBufSize
          /\ buf' = [buf EXCEPT ![f].off = buf[f].len]
    /\ ReportFatal("tl")
    /\ TlReturn
    /\ UNCHANGED << mainPc, exitCode, exitBy, ctxDone, sigs, sigsSent, wgCh, recvd, swPc,
                    failures, doShutdown, sdPc, encPc, nn, frameNo, liQ, ticks, still,
                    httpPc, roundQ, served, run, consec, runReports, interleaved,
                    truncated, lastRecv, heldAtStart, TimelapseIntervalMins, encodeDur,
                    diag, faultBudget >>

\* The values time.Since(encodeStarted) is taken from, in seconds: up to one second
\* more than the longest interval.
EncodeDurs == 0..(MaxIntervalMins * Minute + 1)

\* time.Duration(TimelapseIntervalMins)*time.Minute
Interval == TimelapseIntervalMins * Minute

\* if encodeDur >= interval ... else if encodeDur >= interval/2 ... else ...
LevelNoWarn(d) == IF d >= Interval THEN "ERROR" ELSE "INFO"
Level(d) ==
    IF d >= Interval THEN "ERROR"
    ELSE IF d >= Interval \div 2 THEN "WARN"
    ELSE "INFO"

\* cmd.CombinedOutput() succeeds after d seconds; the duration is classified and one
\* line is logged; next select.
TlEncodeOk(d) ==
    /\ Running /\ cons[TL].pc = "ffmpeg"
    /\ encodeDur' = d
    /\ diag' = Append(diag, Level(d))
    /\ cons' = TlSet("select")
    /\ still' = [want |-> 0, file |-> 0, buffered |-> 0]
    /\ UNCHANGED << mainPc, exitCode, exitBy, ctxDone, sigs, sigsSent, wg, wgCh, recvd,
                    sent, swPc, failures, doShutdown, sdPc, encPc, nn, frameNo, buf, liQ,
                    ticks, httpPc, roundQ, served, run, consec, runReports, interleaved,
                    truncated, lastRecv, heldAtStart, doneCalls, TimelapseIntervalMins,
                    faultBudget, fatal >>

\* cmd.CombinedOutput() fails: log.Println(err); return.
TlEncodeFail ==
    /\ Running /\ cons[TL].pc = "ffmpeg"
    /\ fatal' = fatal \cup {"tl"}
    /\ TlReturn
    /\ UNCHANGED << mainPc, exitCode, exitBy, ctxDone, sigs, sigsSent, wgCh, recvd, sent,
                    swPc, failures, doShutdown, sdPc, encPc, nn, frameNo, buf, liQ,
                    ticks, still, httpPc, roundQ, served, run, consec, runReports,
                    interleaved, truncated, lastRecv, heldAtStart, TimelapseIntervalMins,
                    encodeDur, diag, faultBudget >>

-----------------------------------------------------------------------------
(* ServeHttp, src/server.go *)

\* server.ListenAndServe() returns an error of its own (the port is taken, ...):
\* it is sent on errCh and the function returns.
HttpListenFail ==
    /\ Running /\ httpPc = "serving"
    /\ ReportFatal("http")
    /\ httpPc' = "done"
    /\ WgDone("http")
    /\ UNCHANGED << mainPc, exitCode, exitBy, ctxDone, sigs, sigsSent, wgCh, recvd, swPc,
                    failures, doShutdown, sdPc, encPc, nn, frameNo, buf, liQ, cons,
                    ticks, still, roundQ, served, run, consec, runReports, interleaved,
                    truncated, lastRecv, heldAtStart, TimelapseIntervalMins, encodeDur,
                    diag, faultBudget >>

\* <-ctx.Done(); server.Shutdown(ctx): ListenAndServe returns ErrServerClosed, which
\* is sent on errCh, and the function returns.  Running handlers are not interrupted.
HttpShutdown ==
    /\ Running /\ httpPc = "serving"
    /\ ctxDone
    /\ Report("http")
    /\ httpPc' = "done"
    /\ WgDone("http")
    /\ UNCHANGED << mainPc, exitCode, exitBy, ctxDone, sigs, sigsSent, wgCh, recvd, swPc,
                    failures, doShutdown, sdPc, encPc, nn, frameNo, buf, liQ, cons,
                    ticks, still, roundQ, served, run, consec, runReports, interleaved,
                    truncated, lastRecv, heldAtStart, TimelapseIntervalMins, encodeDur,
                    diag, faultBudget, fatal >>

-----------------------------------------------------------------------------
(* The whole program *)

Next ==
    \/ ExternalSignal \/ MainRecvErr \/ MainRecvSig \/ MainCancel \/ WaitGroupWaiter
    \/ MainTimeout \/ MainAllDone \/ MainSecondSig
    \/ SwOpenOk \/ SwOpenFail \/ SwStartNil \/ SwStartOk \/ SwStartFail \/ SdStop \/ SdFlag
    \/ SwLoop \/ SwExit \/ SwWaitOk \/ SwWaitTimeout \/ SwWaitError
    \/ SwReadHandoff \/ SwReadDrop \/ SwReadError
    \/ EncCopyAck \/ EncDecodeFail \/ EncDecodeOk \/ EncEncodeFail \/ EncEncodeOk
    \/ EncFanSend \/ EncFanBreak \/ EncFanFull \/ EncPost
    \/ \E c \in Clients : \E k \in {"stream", "snap"} : Request(c, k)
    \/ \E c \in Clients : ClientSecondRecv(c)
    \/ \E c \in Clients : StreamWrite(c)
    \/ \E c \in Clients : StreamWriteFail(c)
    \/ \E c \in Clients : SnapWrite(c)
    \/ TlMkdirOk \/ TlMkdirFail \/ TlCancel \/ TlTick \/ TlSecondRecv
    \/ TlCreateFail \/ TlCreateRead \/ TlReadWrite \/ TlReadWriteFail
    \/ (\E d \in EncodeDurs : TlEncodeOk(d)) \/ TlEncodeFail
    \/ HttpListenFail \/ HttpShutdown

Spec == Init /\ [][Next]_vars

(* The scenarios below restrict the environment.  Where the encode duration plays  *)
(* no part, ffmpeg returns within the second: TlEncodeOk(0).                       *)

(* Frames flow from the device to the consumers: the device neither times out nor  *)
(* fails, the codec and the file system do not fail, no shutdown is triggered.     *)
NextFan ==
    \/ SwOpenOk \/ SwStartOk \/ SwLoop \/ SwWaitOk \/ SwReadHandoff \/ SwReadDrop
    \/ EncCopyAck \/ EncDecodeOk \/ EncEncodeOk
    \/ EncFanSend \/ EncFanBreak \/ EncFanFull \/ EncPost
    \/ \E c \in Clients : \E k \in {"stream", "snap"} : Request(c, k)
    \/ \E c \in Clients : ClientSecondRecv(c)
    \/ \E c \in Clients : StreamWrite(c)
    \/ \E c \in Clients : StreamWriteFail(c)
    \/ \E c \in Clients : SnapWrite(c)
    \/ TlMkdirOk \/ TlTick \/ TlSecondRecv \/ TlCreateRead \/ TlReadWrite
    \/ TlEncodeOk(0) \/ TlEncodeFail

SpecFan == Init /\ [][NextFan]_vars

(* The capture loop against a device that times out and fails, and the shutdown a  *)
(* report triggers: no client connects, the ticker does not tick, no signal comes. *)
NextCapture ==
    \/ MainRecvErr \/ MainCancel \/ WaitGroupWaiter \/ MainTimeout \/ MainAllDone
    \/ SwOpenOk \/ SwOpenFail \/ SwStartNil \/ SwStartOk \/ SwStartFail \/ SdStop \/ SdFlag
    \/ SwLoop \/ SwExit \/ SwWaitOk \/ SwWaitTimeout \/ SwWaitError
    \/ SwReadHandoff \/ SwReadDrop \/ SwReadError
    \/ EncCopyAck \/ EncDecodeFail \/ EncDecodeOk \/ EncEncodeFail \/ EncEncodeOk
    \/ EncFanBreak \/ EncPost
    \/ TlMkdirOk \/ TlCancel
    \/ HttpShutdown

SpecCapture == Init /\ [][NextCapture]_vars

(* Shutdown: signals, fatal reports and ticks, against a device that delivers     *)
(* frames; no client connects.                                                    *)
NextLife ==
    \/ ExternalSignal \/ MainRecvErr \/ MainRecvSig \/ MainCancel \/ WaitGroupWaiter
    \/ MainTimeout \/ MainAllDone \/ MainSecondSig
    \/ SwOpenOk \/ SwStartOk \/ SdStop \/ SdFlag
    \/ SwLoop \/ SwExit \/ SwWaitOk \/ SwReadHandoff \/ SwReadDrop
    \/ EncCopyAck \/ EncDecodeFail \/ EncDecodeOk \/ EncEncodeOk
    \/ EncFanSend \/ EncFanBreak \/ EncPost
    \/ TlMkdirOk \/ TlCancel \/ TlTick \/ TlSecondRecv
    \/ TlCreateRead \/ TlReadWrite \/ TlEncodeOk(0) \/ TlEncodeFail
    \/ HttpListenFail \/ HttpShutdown

\* A step of a goroutine other than main and its wg.Wait() goroutine.
WorkerStep ==
    \/ SwOpenOk \/ SwStartOk \/ SdStop \/ SdFlag
    \/ SwLoop \/ SwExit \/ SwWaitOk \/ SwReadHandoff \/ SwReadDrop
    \/ EncCopyAck \/ EncDecodeFail \/ EncDecodeOk \/ EncEncodeOk
    \/ EncFanSend \/ EncFanBreak \/ EncPost
    \/ TlMkdirOk \/ TlCancel \/ TlTick \/ TlSecondRecv
    \/ TlCreateRead \/ TlReadWrite \/ TlEncodeOk(0) \/ TlEncodeFail
    \/ HttpListenFail \/ HttpShutdown

\* The scheduler runs every goroutine that can take a step, and the deadline timer fires.
Fairness ==
    /\ WF_vars(MainCancel)
    /\ WF_vars(MainTimeout)
    /\ WF_vars(SdStop \/ SdFlag \/ SwLoop \/ SwExit \/ TlCancel \/ HttpShutdown
               \/ WaitGroupWaiter)

SpecLife == Init /\ [][NextLife]_vars /\ Fairness

(* Every way a worker's function can end: the shutdown of NextLife, and the device, *)
(* the output directory and the still file failing.                                *)
NextExits ==
    \/ NextLife
    \/ SwOpenFail \/ SwStartNil
    \/ TlMkdirFail \/ TlCreateFail \/ TlReadWriteFail

SpecExits == Init /\ [][NextExits]_vars

(* The timelapse worker takes its still and runs ffmpeg, for every encode duration  *)
(* and for the intervals APP_TIMELAPSE_INT_MINS can set: the device, the codec and *)
(* the file system do not fail, no client connects, no shutdown is triggered.      *)
InitInterval == Start(MaxStreamReports) /\ TimelapseIntervalMins \in 1..MaxIntervalMins

NextEncode ==
    \/ SwOpenOk \/ SwStartOk \/ SwLoop \/ SwWaitOk \/ SwReadHandoff \/ SwReadDrop
    \/ EncCopyAck \/ EncDecodeOk \/ EncEncodeOk \/ EncFanSend \/ EncFanBreak \/ EncPost
    \/ TlMkdirOk \/ TlTick \/ TlSecondRecv \/ TlCreateRead \/ TlReadWrite
    \/ (\E d \in EncodeDurs : TlEncodeOk(d)) \/ TlEncodeFail

SpecEncode == InitInterval /\ [][NextEncode]_vars

(* A device that fails again and again: the capture loop reports on every iteration *)
(* while main takes one report and shuts the program down.                          *)
InitFlood == Start(ErrChCap) /\ TimelapseIntervalMins = DefaultIntervalMins

NextFlood ==
    \/ MainRecvErr \/ MainCancel \/ WaitGroupWaiter \/ MainTimeout \/ MainAllDone
    \/ SwOpenOk \/ SwStartOk \/ SwStartFail \/ SdStop \/ SdFlag
    \/ SwLoop \/ SwExit \/ SwWaitError \/ SwReadDrop \/ SwReadError
    \/ TlMkdirOk \/ TlMkdirFail \/ TlCancel
    \/ HttpListenFail \/ HttpShutdown

SpecFlood == InitFlood /\ [][NextFlood]_vars

-----------------------------------------------------------------------------
(* Properties *)

\* Consumer c is suspended in a receive from li.
Parked(c) == cons[c].pc \in {"discardWait", "recvWait"}

\* Consumer c has received a frame and not yet let go of it.
Holds(c) == cons[c].pc \in {"gotStale", "got", "reading", "ffmpeg"}

\* C1: when the fan-out loop of a round is over, each of the first min(k, N) consumers
\* that were waiting on li when the frame was encoded has been sent the frame in that
\* round; a consumer served in the round that still holds what it was sent holds the
\* round's buffer; and a buffer a consumer holds has been written completely by
\* jpeg.Encode before it was sent.
C1_FanOutSameFrame ==
    /\ encPc = "post" =>
          \A i \in 1..Min(Len(roundQ), N) : roundQ[i] \in served
    /\ encPc \in {"fan", "post"} =>
          \A c \in served : cons[c].pc \in {"gotStale", "got"} => cons[c].img = frameNo
    /\ \A c \in ConsumerIds :
          Holds(c) => /\ cons[c].img \in 1..frameNo
                      /\ buf[cons[c].img].len \in FrameLens

\* Two consumers were waiting when the frame was encoded and both were served in the round.
C1_TwoServedInOneRound ==
    /\ encPc = "post"
    /\ Len(roundQ) = 2
    /\ served = ConsumerIds
    /\ \A c \in ConsumerIds : cons[c].pc \in {"gotStale", "got"} /\ cons[c].img = frameNo

\* C2: when no consumer took the frame in the fan-out loop (nn = 0), the encoder goes
\* back to <-fi only in a step in which a consumer receives that frame.
C2_Backpressure ==
    [][(encPc \in {"post", "blocked"} /\ nn = 0 /\ encPc' = "recvFi") =>
          \E c \in ConsumerIds : /\ cons'[c] # cons[c]
                                 /\ cons'[c].pc \in {"gotStale", "got"}
                                 /\ cons'[c].img = frameNo]_vars

\* The encoder is held in its blocking send while the capture loop has the next raw
\* frame ready for it.
C2_EncoderHeldBack == encPc = "blocked" /\ swPc = "read" /\ liQ = << >>

\* C3: after the shutdown trigger main always exits; it exits with status 0 only when
\* all three workers have called wg.Done; an exit caused by the deadline has a
\* non-zero status.
C3_ShutdownNeverHangs ==
    /\ [](exitCode = 0 => wg = 0)
    /\ [](exitBy = "timeout" => exitCode # 0)
    /\ [](mainPc = "exited" /\ wg > 0 => exitCode # 0)
    /\ (mainPc \in {"cancel", "select2"}) ~> (mainPc = "exited")

\* The deadline ended the process while a worker had not finished.
C3_TimedOutWithWorkerLeft == exitBy = "timeout" /\ exitCode = 1 /\ wg > 0 /\ ctxDone

\* C4: a consumer that is suspended in a receive from li after cancellation leaves that
\* receive.
C4_BlockedReadTerminates ==
    \A c \in ConsumerIds : [](ctxDone /\ Parked(c) => <>(~Parked(c)))

\* C5: every goroutine that met a fatal condition has sent a report on errCh.
C5_FatalAlwaysReported == \A w \in fatal : sent[w] >= 1

\* C6: a goroutine sends at most one report, and StreamWorker has returned once it has
\* sent one.
C6_OneReportThenStop ==
    /\ \A w \in Senders : sent[w] <= 1
    /\ sent["stream"] >= 1 => swPc = "done"

\* C7: in a row of consecutive WaitForFrame timeouts one report is sent, on the timeout
\* that makes the row longer than WebcamFrameMaxTimeouts, none before and none after.
C7_ReportOnEleventhConsecutive ==
    runReports = (IF consec > WebcamFrameMaxTimeouts THEN 1 ELSE 0)

\* C8: the counter equals the number of timeouts since the last successful wait, so
\* it is zero after a successful wait, and a timeout sends a report only when it is at
\* least the (WebcamFrameMaxTimeouts + 1)-th since the last successful wait.
C8_ResetOnSuccess ==
    /\ failures = run
    /\ runReports > 0 => run > WebcamFrameMaxTimeouts

\* Timeouts and successful waits have alternated, timeouts are being counted again and
\* none has been reported.
C8_TimeoutsAfterSuccess ==
    interleaved /\ run > 0 /\ failures = run /\ sent["stream"] = 0

\* C9: every frame an HTTP consumer has written out was the complete encoded frame.
C9_DeliveredFramesComplete == ~truncated

\* C10: when the ffmpeg command is started, all bytes of the sampled frame are in the
\* still file and none is left in the bufio.Writer.
C10_StillWrittenBeforeEncode ==
    cons[TL].pc = "ffmpeg" =>
       /\ still.buffered = 0
       /\ still.file = buf[cons[TL].img].len

\* C11: errCh always has room for another report, so no send on errCh waits.
C11_ErrChNeverFull == ErrPending < ErrChCap

\* C12: cancel() is called once, at the trigger; main leaves its second select only by
\* exiting, through the deadline (failure status), through wgCh (status 0, and only
\* with the WaitGroup counter at zero) or through a second signal (failure status);
\* after the exit nothing changes any more.
C12_OneOutcome ==
    /\ [](mainPc = "exited" =>
            << exitBy, exitCode >> \in {<< "timeout", FatalStatus >>,
                                        << "done", DoneStatus >>,
                                        << "signal", FatalStatus >>})
    /\ [](exitBy = "done" => wg = 0 /\ wgCh)
    /\ [](mainPc \in {"select2", "exited"} => ctxDone)
    /\ [][ctxDone' # ctxDone => mainPc = "cancel" /\ mainPc' = "select2"]_vars
    /\ [][mainPc' = "cancel" => mainPc \in {"select1", "cancel"}]_vars
    /\ [][mainPc = "select2" => mainPc' \in {"select2", "exited"}]_vars
    /\ [][mainPc = "exited" => UNCHANGED vars]_vars

\* The second signal ended the process although all workers had finished and wgCh
\* was closed: the success outcome was ready and was not taken.
C12_SignalExitWhileAllDone == exitBy = "signal" /\ wgCh /\ wg = 0 /\ exitCode = FatalStatus

\* C13: after cancel(), when no worker goroutine can take a step any more, each of the
\* three workers has called wg.Done.  (States in which the capture loop stands still
\* only because the model's supply of frames is used up are left out.)
C13_WorkersFinishAfterCancel ==
    (Running /\ ctxDone /\ FramesTaken < MaxFrames /\ ~ENABLED WorkerStep) => wg = 0

\* TimelapseWorker is inside a tick: between case <-ticker.C and the end of the encode.
InCycle(pc) == pc \in {"discardWait", "gotStale", "recvWait", "got", "reading", "ffmpeg"}

\* C14: TimelapseWorker enters a tick only while cancel() has not been called, and it
\* stops only from its select or from a step of a tick that failed, never in the
\* middle of a tick that goes well.
C14_NoNewCycleAfterCancel ==
    /\ [][cons[TL].pc = "select" /\ InCycle(cons'[TL].pc) => ~ctxDone]_vars
    /\ [][InCycle(cons[TL].pc) /\ cons'[TL].pc = "stopped" => fatal' # fatal]_vars

\* C15: the number of the frame a consumer receives is never smaller than the number
\* of a frame it received before; what it receives is the frame the encoder numbered
\* last, and these numbers only grow.
C15_FramesInProductionOrder ==
    /\ [][\A c \in ConsumerIds : lastRecv'[c] >= lastRecv[c]]_vars
    /\ [][\A c \in ConsumerIds : lastRecv'[c] # lastRecv[c] => lastRecv'[c] = frameNo]_vars
    /\ [][frameNo' >= frameNo]_vars
    /\ [](\A c \in ConsumerIds : Holds(c) => cons[c].img = lastRecv[c])

\* A stream client has received the second frame after the first.
C15_SecondFrameAfterFirst ==
    \E c \in Clients : /\ cons[c].kind = "stream" /\ cons[c].pc = "got"
                        /\ cons[c].img = 2 /\ lastRecv[c] = 2 /\ lastRecv[TL] = 1

\* A consumer receives the encoder's frame in this step.
HandedOff ==
    \E c \in ConsumerIds : /\ cons'[c] # cons[c]
                            /\ cons'[c].pc \in {"gotStale", "got"}
                            /\ cons'[c].img = frameNo

\* C16: every non-blocking handoff is counted in nn, which never exceeds N; the loop
\* of non-blocking attempts ends without a handoff, at the first attempt that finds no
\* receiver or after N handoffs; a handoff after the loop happens only with nn = 0 and
\* takes the encoder back to <-fi; and the encoder gets back to <-fi after at least
\* one and at most N handoffs of the frame.
C16_HandoffsPerCycle ==
    /\ [](nn \in 0..N)
    /\ [][HandedOff => encPc \in {"fan", "post", "blocked"}]_vars
    /\ [][HandedOff /\ encPc = "fan" => nn < N /\ nn' = nn + 1 /\ encPc' = "fan"]_vars
    /\ [][encPc = "fan" /\ encPc' # "fan" =>
            (encPc' = "post" /\ ~HandedOff /\ (nn = N \/ liQ = << >>))]_vars
    /\ [][HandedOff /\ encPc \in {"post", "blocked"} => nn = 0 /\ encPc' = "recvFi"]_vars
    /\ [][encPc' = "recvFi" /\ encPc \in {"post", "blocked"} =>
            ((nn \in 1..N /\ ~HandedOff) \/ (nn = 0 /\ HandedOff))]_vars

\* The loop of non-blocking sends has ended after N handoffs of one frame.
C16_FanOutExhausted == encPc = "post" /\ nn = N /\ liQ # << >>

\* C17: a raw frame is handed over only to an encoder that is receiving on fi; with a
\* frame read, the capture loop can always go on to its next iteration, whatever the
\* encoder is doing; and while the loop waits on back the encoder is at its send on
\* back, which can always take place.
C17_CaptureNeverWaitsForEncoder ==
    /\ [][swPc = "read" /\ swPc' = "ack" => encPc = "recvFi" /\ encPc' = "copy"]_vars
    /\ [](Running /\ swPc = "read" => ENABLED SwReadDrop)
    /\ [](swPc = "ack" => encPc = "copy")
    /\ [](Running /\ swPc = "ack" => ENABLED EncCopyAck)

\* A raw frame has been read while the encoder has ended after a codec error.
C17_FrameReadWithEncoderDead == swPc = "read" /\ encPc = "dead" /\ Running

\* C18: while the encoder copies a raw frame the capture loop waits on back, and it
\* leaves that wait only through the encoder's acknowledgement, which follows the
\* copy; the encoder takes a raw frame only when it is back at <-fi.
C18_NoDeviceCallDuringCopy ==
    /\ [](encPc = "copy" => swPc = "ack")
    /\ [][swPc = "ack" /\ swPc' # "ack" =>
            (encPc = "copy" /\ encPc' = "decode" /\ swPc' = "loop")]_vars
    /\ [][encPc' = "copy" /\ encPc # "copy" => (encPc = "recvFi" /\ swPc = "read")]_vars

\* The encoder copies its second raw frame while the capture loop waits on back.
C18_CopyingSecondFrame == encPc = "copy" /\ swPc = "ack" /\ frameNo = 1 /\ Running

\* C19: once cancel() has been called the capture loop starts no WaitForFrame and no
\* ReadFrame call.
C19_NoDeviceCallAfterCancel ==
    /\ [][ctxDone /\ swPc' = "wait" => swPc = "wait"]_vars
    /\ [][ctxDone /\ swPc' = "read" => swPc = "read"]_vars

\* C20: the process is ended by the second-signal case only when at least two signals
\* have been delivered to it.
C20_SecondSignalExitNeedsTwoSignals == exitBy = "signal" => sigsSent >= 2

\* C21: the frame a consumer has after its second receive is not the frame the encoder
\* was holding in its blocking send when the consumer began its first receive.
C21_DiscardClearsBlockedFrame ==
    \A c \in ConsumerIds :
        (Holds(c) /\ cons[c].pc # "gotStale" /\ heldAtStart[c] # 0) =>
            cons[c].img > heldAtStart[c]

\* The snapshot handler and the timelapse worker each hold a frame after their second
\* receive, and the first receive of one of them took the frame out of the encoder's
\* blocking send.
C21_SecondReceiveAfterBlockedFrame ==
    /\ \E c \in Clients : cons[c].kind = "snap" /\ cons[c].pc = "got"
    /\ cons[TL].pc = "got"
    /\ \E c \in ConsumerIds : heldAtStart[c] = 1 /\ cons[c].img = 2

\* The function of worker w has ended (by a return or by a panic).
Returned(w) ==
    CASE w = "stream" -> swPc = "done" \/ exitBy = "panic"
      [] w = "tl"     -> cons[TL].pc = "stopped"
      [] w = "http"   -> httpPc = "done"

\* C22: the context starts not cancelled, is cancelled at most once, by main after it
\* has received a fatal report or a signal, and stays cancelled; the WaitGroup counter
\* starts at 3, each of the three workers decrements it exactly once, when its function
\* ends (whichever way it ends), and the counter never goes below zero.
C22_LifecycleState ==
    /\ wg = Workers /\ ~ctxDone
    /\ [](wg >= 0)
    /\ [](wg = Workers - (doneCalls["stream"] + doneCalls["tl"] + doneCalls["http"]))
    /\ [](\A w \in WorkerIds : doneCalls[w] = (IF Returned(w) THEN 1 ELSE 0))
    /\ [][ctxDone' # ctxDone => ~ctxDone /\ ctxDone' /\ mainPc = "cancel"]_vars
    /\ [][mainPc' = "cancel" /\ mainPc # "cancel" =>
             (recvd' = recvd + 1 \/ sigs' = sigs - 1)]_vars
    /\ [][\A w \in WorkerIds : Returned(w) => Returned(w)']_vars

\* All three workers have ended and the counter is at zero: the capture loop and the
\* HTTP server stopped on the cancellation, the timelapse worker returned early on an
\* error it reported.
C22_AllWorkersCounted ==
    /\ wg = 0 /\ ctxDone
    /\ swPc = "done" /\ httpPc = "done" /\ cons[TL].pc = "stopped"
    /\ sent["tl"] = 1

\* The step in which ffmpeg has succeeded and the worker goes back to its select.
EncodeSucceeds == cons[TL].pc = "ffmpeg" /\ cons'[TL].pc = "select"

\* C23: the step after a successful encode logs exactly one line about the duration d:
\* ERROR when d >= I, WARN when I/2 <= d < I, INFO when d < I/2, with I the sampling
\* interval; whatever the level, the worker is back at its select and nothing else
\* than its own position, its still and the log has changed.
C23_OneLevelPerEncode ==
    [][EncodeSucceeds =>
         /\ Len(diag') = Len(diag) + 1
         /\ SubSeq(diag', 1, Len(diag)) = diag
         /\ LET d     == encodeDur'
                I     == TimelapseIntervalMins * Minute
                level == diag'[Len(diag')]
            IN /\ level \in {"ERROR", "WARN", "INFO"}
               /\ level = "ERROR" <=> d >= I
               /\ level = "WARN" <=> (2 * d >= I /\ d < I)
               /\ level = "INFO" <=> 2 * d < I
         /\ cons'[TL] = [cons[TL] EXCEPT !.pc = "select", !.img = 0]
         /\ UNCHANGED << mainPc, exitCode, exitBy, ctxDone, wg, doneCalls, sent, recvd,
                         ticks, buf, liQ, encPc, swPc, TimelapseIntervalMins >>]_vars

\* An encode that took exactly half of a two-minute interval has been logged as WARN
\* and the worker waits in its select again.
C23_WarnAtHalfInterval ==
    /\ TimelapseIntervalMins = 2 /\ encodeDur = Minute
    /\ diag = << "WARN" >>
    /\ cons[TL].pc = "select"

=============================================================================
